---- MODULE Spec2Model ----
(***************************************************************************)
(* Model of src/js/modules/editor.js of the D2 playground: the compile     *)
(* pipeline (compile), the diagnostics presenter (displayCompileErrors,    *)
(* clearCompileErrors) and the range grammar (parseRange, parsePosition).  *)
(*                                                                         *)
(* JavaScript runs every handler to its next await without interleaving,   *)
(* so one action is one such run: the start of compile() up to its fetch,  *)
(* the continuation after the fetch, the continuation after the body read. *)
(*                                                                         *)
(* Strings the code looks into (a script for endsWith, a range for         *)
(* lastIndexOf/split) are tuples of one-character strings; strings the     *)
(* code only passes on or compares with "" are TLA+ strings.               *)
(***************************************************************************)
EXTENDS Integers, Sequences, FiniteSets, TLC

VARIABLES
  monacoLineDecorators, \* the module-level list of decoration handles
  decorations,          \* editor: installed gutter decorations, handle -> decoration
  nextDecorationId,     \* editor: number of handles handed out so far
  markers,              \* editor: the model markers of owner "parser"
  errorsPanel,          \* #editor-errors: [innerHTML, display]
  lastCall,             \* the latest presenter call: [op, errs, threw]
  lastReturned,         \* the latest presenter call that returned: [op, errs]
  locked,               \* #compile-btn carries the class "btn-disabled"
  editorValue,          \* the editor's text
  queryScript,          \* the query parameter "script"
  loader,               \* #loading-shroud: style.display
  renderSvg,            \* #render-svg: innerHTML
  nInv,                 \* number of compile() invocations made so far
  pc,                   \* invocation -> where it stands
  frame,                \* invocation -> its local variables (encoded, response)
  trace,                \* invocation -> the capability calls it has made, in order
  parseIn,              \* the string handed to parseRange or parsePosition: [fn, arg, wire]
  parseOut              \* what that call did: [applied, result]

presenterVars == <<monacoLineDecorators, decorations, nextDecorationId, markers, errorsPanel,
                   lastCall, lastReturned>>
pipelineVars == <<locked, editorValue, queryScript, loader, renderSvg, nInv, pc, frame, trace>>
vars == <<monacoLineDecorators, decorations, nextDecorationId, markers, errorsPanel, lastCall,
          lastReturned, locked, editorValue, queryScript, loader, renderSvg, nInv, pc, frame, trace,
          parseIn, parseOut>>
parserVars == <<parseIn, parseOut>>

MAX_ERRORS == 5

\* Bounds of the model.
MaxInv == 2
MaxErrs == 7
MaxDecorationId == 12

(***************************************************************************)
(* Strings and numbers as JavaScript computes them.                        *)
(***************************************************************************)
Max(S) == CHOOSE m \in S : \A k \in S : k <= m

Range(f) == {f[k] : k \in DOMAIN f}

\* A JavaScript number is an IEEE 754 double: NaN, +Infinity or -Infinity
\* (inf = 1 or -1), or a finite value written out exactly in decimal, as
\* (-1)^neg * digits * 10^e: digits is the sequence of decimal digits without
\* leading zeros (empty for zero), e = 0 for an integer and e < 0 with a last
\* digit other than 0 otherwise. Every double has such a finite expansion.
Dec(neg, digits, e) == [nan |-> FALSE, inf |-> 0, neg |-> neg, digits |-> digits, e |-> e]
NaN == [nan |-> TRUE, inf |-> 0, neg |-> FALSE, digits |-> <<>>, e |-> 0]
Infinity(sign) == [nan |-> FALSE, inf |-> sign, neg |-> sign < 0, digits |-> <<>>, e |-> 0]
Zero(neg) == Dec(neg, <<>>, 0)

RECURSIVE IntDigits(_)
IntDigits(n) == IF n = 0 THEN <<>> ELSE Append(IntDigits(n \div 10), n % 10)

\* the double of an integer below 2^31
Num(n) == IF n < 0 THEN Dec(TRUE, IntDigits(0 - n), 0) ELSE Dec(FALSE, IntDigits(n), 0)

(***************************************************************************)
(* Natural numbers of any size, for the rounding of a double: a sequence   *)
(* of limbs in base 2^15, least significant first, without high zero       *)
(* limbs. The operators split their argument in halves, so that their      *)
(* nesting stays logarithmic in its length.                                *)
(***************************************************************************)
Base == 32768
LimbBits == 15

Front(s) == SubSeq(s, 1, Len(s) - 1)
Low(a) == SubSeq(a, 1, Len(a) \div 2)
High(a) == SubSeq(a, Len(a) \div 2 + 1, Len(a))
Zeros(n) == [k \in 1..n |-> 0]
Pad(a, n) == a \o Zeros(n - Len(a))
Longer(a, b) == IF Len(a) >= Len(b) THEN Len(a) ELSE Len(b)

\* the number of limbs up to the highest one that is not zero
RECURSIVE Top(_)
TopOf(low, top) == IF top # 0 THEN Len(low) + top ELSE Top(low)
Top(a) ==
  IF a = <<>> THEN 0
  ELSE IF Len(a) = 1 THEN (IF a[1] = 0 THEN 0 ELSE 1)
  ELSE TopOf(Low(a), Top(High(a)))

BigTrim(a) == SubSeq(a, 1, Top(a))

BigOfInt(n) == BigTrim(<<n % Base, (n \div Base) % Base, n \div (Base * Base)>>)

\* a + b + c for a and b of the same length: the limbs, then the carry
RECURSIVE AddN(_, _, _)
AddHigh(low, a, b) == Front(low) \o AddN(a, b, low[Len(low)])
AddN(a, b, c) ==
  IF a = <<>> THEN <<c>>
  ELSE IF Len(a) = 1 THEN <<(a[1] + b[1] + c) % Base, (a[1] + b[1] + c) \div Base>>
  ELSE AddHigh(AddN(Low(a), Low(b), c), High(a), High(b))

BigAdd(a, b) == BigTrim(AddN(Pad(a, Longer(a, b)), Pad(b, Longer(a, b)), 0))

\* a - b - c for a and b of the same length: the limbs, then the borrow
RECURSIVE SubN(_, _, _)
SubHigh(low, a, b) == Front(low) \o SubN(a, b, low[Len(low)])
SubN(a, b, c) ==
  IF a = <<>> THEN <<c>>
  ELSE IF Len(a) = 1
  THEN (IF a[1] - b[1] - c < 0 THEN <<a[1] - b[1] - c + Base, 1>> ELSE <<a[1] - b[1] - c, 0>>)
  ELSE SubHigh(SubN(Low(a), Low(b), c), High(a), High(b))

\* a - b for a >= b
BigSub(a, b) == BigTrim(Front(SubN(a, Pad(b, Len(a)), 0)))

\* a * k + c for k below the base: the limbs, then the carry
RECURSIVE MulN(_, _, _)
MulHigh(low, a, k) == Front(low) \o MulN(a, k, low[Len(low)])
MulN(a, k, c) ==
  IF a = <<>> THEN <<c>>
  ELSE IF Len(a) = 1 THEN <<(a[1] * k + c) % Base, (a[1] * k + c) \div Base>>
  ELSE MulHigh(MulN(Low(a), k, c), High(a), k)

BigMulSmall(a, k) == BigTrim(MulN(a, k, 0))

\* (r * Base^Len(a) + a) divided by k, for r < k <= 10000: quotient and remainder.
\* The high half is divided first and its remainder carried into the low half.
RECURSIVE DivN(_, _, _)
DivBoth(high, low) == [q |-> low.q \o high.q, r |-> low.r]
DivLow(high, a, k) == IF high.r >= k THEN high ELSE DivBoth(high, DivN(a, k, high.r))
DivN(a, k, r) ==
  IF a = <<>> THEN [q |-> <<>>, r |-> r]
  ELSE IF Len(a) = 1 THEN [q |-> <<(r * Base + a[1]) \div k>>, r |-> (r * Base + a[1]) % k]
  ELSE DivLow(DivN(High(a), k, r), Low(a), k)

\* -1, 0 or 1 as a is below, equal to or above b, both of the same length
RECURSIVE CmpN(_, _)
CmpLow(high, a, b) == IF high # 0 THEN high ELSE CmpN(a, b)
CmpN(a, b) ==
  IF a = <<>> THEN 0
  ELSE IF Len(a) = 1 THEN (IF a[1] < b[1] THEN -1 ELSE IF a[1] > b[1] THEN 1 ELSE 0)
  ELSE CmpLow(CmpN(High(a), High(b)), Low(a), Low(b))

BigCmp(a, b) == CmpN(Pad(a, Longer(a, b)), Pad(b, Longer(a, b)))

RECURSIVE BitLenSmall(_)
BitLenSmall(n) == IF n = 0 THEN 0 ELSE 1 + BitLenSmall(n \div 2)

\* the number of bits of a
BitLen(a) == IF a = <<>> THEN 0 ELSE LimbBits * (Len(a) - 1) + BitLenSmall(a[Len(a)])

\* a * k^x, a itself when x <= 0: by factors of k^per while x allows, then
\* of k, sixteen and more factors at a time; k^per is below the base
RECURSIVE Times(_, _, _, _, _)
Times(a, k, per, x, stop) ==
  IF x <= stop \/ x <= 0 \/ a = <<>> THEN a
  ELSE Times(BigMulSmall(a, IF x >= per THEN k ^ per ELSE k), k, per,
             IF x >= per THEN x - per ELSE x - 1, stop)

RECURSIVE Power(_, _, _, _)
Power(a, k, per, x) ==
  IF x <= 0 \/ a = <<>> THEN a
  ELSE Power(Times(a, k, per, x, x - 16 * per), k, per, x - 16 * per)

\* the number written by the digits ds (integers below the base) in the base
RECURSIVE FromDigits(_, _)
JoinDigits(low, high, base, n) ==
  IF low = <<>> THEN high ELSE BigAdd(Power(low, base, IF base = 10 THEN 4 ELSE 1, n), high)
FromDigits(ds, base) ==
  IF ds = <<>> THEN <<>>
  ELSE IF Len(ds) = 1 THEN BigOfInt(ds[1])
  ELSE JoinDigits(FromDigits(Low(ds), base), FromDigits(High(ds), base), base, Len(High(ds)))

\* the decimal digits of a, four at a time
Digits4(r) == <<r \div 1000, (r \div 100) % 10, (r \div 10) % 10, r % 10>>
DigitsNext(d, acc) == [a |-> BigTrim(d.q), acc |-> Digits4(d.r) \o acc]
DigitsStep(s) == DigitsNext(DivN(s.a, 10000, 0), s.acc)

RECURSIVE DigitsSteps(_, _)
DigitsSteps(s, t) == IF t = 0 \/ s.a = <<>> THEN s ELSE DigitsSteps(DigitsStep(s), t - 1)

RECURSIVE DigitsBlocks(_)
DigitsBlocks(s) == IF s.a = <<>> THEN s ELSE DigitsBlocks(DigitsSteps(s, 16))

RECURSIVE StripZeroDigits(_)
StripZeroDigits(ds) == IF ds # <<>> /\ ds[1] = 0 THEN StripZeroDigits(Tail(ds)) ELSE ds

ToDigits(a) ==
  IF a = <<>> THEN <<>> ELSE StripZeroDigits(DigitsBlocks([a |-> a, acc |-> <<>>]).acc)

\* the number of zeros at the end of ds
RECURSIVE TrailingZeros(_)
TrailingOf(low, high, zeros) ==
  IF zeros = Len(high) THEN zeros + TrailingZeros(low) ELSE zeros
TrailingZeros(ds) ==
  IF ds = <<>> THEN 0
  ELSE IF Len(ds) = 1 THEN (IF ds[1] = 0 THEN 1 ELSE 0)
  ELSE TrailingOf(Low(ds), High(ds), TrailingZeros(High(ds)))

\* digits * 10^e, e < 0, in the form of Dec
DropZeros(neg, ds, e, zeros) ==
  IF zeros >= 0 - e THEN Dec(neg, SubSeq(ds, 1, Len(ds) + e), 0)
  ELSE Dec(neg, SubSeq(ds, 1, Len(ds) - zeros), e + zeros)
Normal(neg, ds, e) == DropZeros(neg, ds, e, TrailingZeros(ds))

(***************************************************************************)
(* Rounding to a double: the mantissa has 53 bits, the least exponent of   *)
(* its last bit is -1074, ties go to the even mantissa, and a value of     *)
(* 2^1024 or more after rounding is Infinity.                              *)
(***************************************************************************)
\* the double m * 2^q: its digits are those of m * 2^q, or for q < 0 those
\* of m * 5^-q with the point moved by q places
Exact(neg, m, q) ==
  IF m = <<>> THEN Zero(neg)
  ELSE IF BitLen(m) + q > 1024 THEN Infinity(IF neg THEN -1 ELSE 1)
  ELSE Normal(neg,
              ToDigits(Power(m, IF q >= 0 THEN 2 ELSE 5, IF q >= 0 THEN 14 ELSE 6,
                             IF q >= 0 THEN q ELSE 0 - q)),
              IF q >= 0 THEN 0 ELSE q)

\* the fraction n / (m * 2^k), as numerator and denominator
ScaleBy(n, m, k, x) == IF k >= 0 THEN [n |-> n, m |-> x] ELSE [n |-> x, m |-> m]
Scale(n, m, k) ==
  ScaleBy(n, m, k, Power(IF k >= 0 THEN m ELSE n, 2, 14, IF k >= 0 THEN k ELSE 0 - k))

\* Division of f.n by f.m for a quotient below 2^54, one bit at a time from
\* the highest: t is the divisor times the weight of the bit.
Half(t) == BigTrim(DivN(t, 2, 0).q)
DivSub(s, t, ge) ==
  [q |-> BigTrim(MulN(s.q, 2, IF ge THEN 1 ELSE 0)),
   r |-> IF ge THEN BigSub(s.r, t) ELSE s.r,
   t |-> t]
DivBit(s, t) == DivSub(s, t, BigCmp(s.r, t) >= 0)
DivStep(s) == DivBit(s, Half(s.t))

RECURSIVE DivSteps(_, _)
DivSteps(s, k) == IF k = 0 \/ s.t = <<>> THEN s ELSE DivSteps(DivStep(s), k - 1)

RECURSIVE DivBlocks(_, _)
DivBlocks(s, k) == IF k <= 0 \/ s.t = <<>> THEN s ELSE DivBlocks(DivSteps(s, 18), k - 18)

\* quotient q and remainder r of f.n by f.m, and the divisor t
BigDiv(f) ==
  IF f.m = <<1>> THEN [q |-> f.n, r |-> <<>>, t |-> f.m]
  ELSE DivBlocks([q |-> <<>>, r |-> f.n, t |-> Power(f.m, 2, 14, 54)], 54)

\* the quotient rounded to the nearest integer, a tie to the even one
NearestOf(d, half) ==
  BigTrim(MulN(d.q, 1, IF half > 0 \/ (half = 0 /\ d.q # <<>> /\ d.q[1] % 2 = 1) THEN 1 ELSE 0))
Nearest(d) == NearestOf(d, BigCmp(BigMulSmall(d.r, 2), d.t))

\* floor(log2(n / m)), which is k or k - 1 for k the difference of the bit lengths
LogOf(f, k) == IF BigCmp(f.n, f.m) >= 0 THEN k ELSE k - 1
Log2(n, m, k) == LogOf(Scale(n, m, k), k)

\* the exponent of the last bit of the mantissa for 2^log <= value < 2^(log+1)
LastBit(log) == IF log - 52 < -1074 THEN -1074 ELSE log - 52

\* the double nearest to n / m, for m > 0; an integer below 2^53 is a double
RoundAt(neg, n, m, q) == Exact(neg, Nearest(BigDiv(Scale(n, m, q))), q)
Round(neg, n, m) ==
  IF n = <<>> THEN Zero(neg)
  ELSE RoundAt(neg, n, m,
               IF m = <<1>> /\ BitLen(n) <= 53 THEN 0
               ELSE LastBit(Log2(n, m, BitLen(n) - BitLen(m))))

\* x + n for an integer n >= 0, rounded as the sum of two doubles is: x is
\* (-1)^x.neg * n / m and the integer is k / m
PlusBig(x, n, k, m, cmp) ==
  Round(x.neg /\ cmp > 0,
        IF x.neg THEN BigSub(IF cmp > 0 THEN n ELSE k, IF cmp > 0 THEN k ELSE n)
        ELSE BigAdd(n, k),
        m)
PlusOver(x, n, k, m) == PlusBig(x, n, k, m, BigCmp(n, k))
PlusDigits(x, n, m) == PlusOver(x, FromDigits(x.digits, 10), BigMulSmall(m, n), m)
Plus(x, n) ==
  IF x.nan THEN NaN
  ELSE IF x.inf # 0 THEN x
  ELSE PlusDigits(x, n, Power(<<1>>, 10, 4, 0 - x.e))

(***************************************************************************)
(* Number(string)                                                          *)
(***************************************************************************)
Digits == {"0", "1", "2", "3", "4", "5", "6", "7", "8", "9"}

DigitVal(c) ==
  CASE c = "0" -> 0 [] c = "1" -> 1 [] c = "2" -> 2 [] c = "3" -> 3 [] c = "4" -> 4
    [] c = "5" -> 5 [] c = "6" -> 6 [] c = "7" -> 7 [] c = "8" -> 8 [] c = "9" -> 9

RECURSIVE DecimalValue(_)
DecimalValue(s) ==
  IF s = <<>> THEN 0
  ELSE 10 * DecimalValue(SubSeq(s, 1, Len(s) - 1)) + DigitVal(s[Len(s)])

IsDigits(s) == s # <<>> /\ \A k \in 1..Len(s) : s[k] \in Digits

\* WhiteSpace and LineTerminator of ECMAScript: space, tab, line feed, carriage
\* return and form feed, and the code points U+000B, U+00A0, U+FEFF, U+1680,
\* U+2000 to U+200A, U+2028, U+2029, U+202F, U+205F and U+3000. Such a code
\* point is the string that names it, and also itself where a string of this
\* module can hold it (the first four).
WhiteSpace ==
  {" ", "\t", "\n", "\r", "\f", "", " ", "﻿", " ",
   "U+000B", "U+00A0", "U+FEFF", "U+1680", "U+2000", "U+2001", "U+2002", "U+2003", "U+2004",
   "U+2005", "U+2006", "U+2007", "U+2008", "U+2009", "U+200A", "U+2028", "U+2029", "U+202F",
   "U+205F", "U+3000"}

RECURSIVE TrimStart(_)
TrimStart(s) == IF s # <<>> /\ s[1] \in WhiteSpace THEN TrimStart(Tail(s)) ELSE s

RECURSIVE TrimEnd(_)
TrimEnd(s) ==
  IF s # <<>> /\ s[Len(s)] \in WhiteSpace THEN TrimEnd(SubSeq(s, 1, Len(s) - 1)) ELSE s

RadixDigitVal(c) ==
  IF c \in Digits THEN DigitVal(c)
  ELSE CASE c \in {"a", "A"} -> 10 [] c \in {"b", "B"} -> 11 [] c \in {"c", "C"} -> 12
         [] c \in {"d", "D"} -> 13 [] c \in {"e", "E"} -> 14 [] c \in {"f", "F"} -> 15
         [] OTHER -> 99

RadixBase(c) ==
  CASE c \in {"x", "X"} -> 16 [] c \in {"o", "O"} -> 8 [] c \in {"b", "B"} -> 2 [] OTHER -> 0

\* the base of a 0x / 0o / 0b literal, 0 for any other string
Radix(t) ==
  IF Len(t) < 3 \/ t[1] # "0" THEN 0
  ELSE IF \A k \in 3..Len(t) : RadixDigitVal(t[k]) < RadixBase(t[2]) THEN RadixBase(t[2])
  ELSE 0

\* a literal without its sign, and the sign
Unsigned(s) == IF s # <<>> /\ s[1] \in {"+", "-"} THEN Tail(s) ELSE s
Negative(s) == s # <<>> /\ s[1] = "-"

\* An unsigned decimal literal is a mantissa (digits with at most one '.', at
\* least one digit) and an optional exponent (e or E, an optional sign, digits).
At(s, chars) == {k \in 1..Len(s) : s[k] \in chars}
Before(s, chars) == IF At(s, chars) = {} THEN s ELSE SubSeq(s, 1, Max(At(s, chars)) - 1)
After(s, chars) == IF At(s, chars) = {} THEN <<>> ELSE SubSeq(s, Max(At(s, chars)) + 1, Len(s))
Mantissa(body) == Before(body, {"e", "E"})
Exponent(body) == After(body, {"e", "E"})
IntPart(body) == Before(Mantissa(body), {"."})
FracPart(body) == After(Mantissa(body), {"."})

IsDecimalLiteral(body) ==
  /\ Cardinality(At(body, {"e", "E"})) <= 1
  /\ At(body, {"e", "E"}) # {} => IsDigits(Unsigned(Exponent(body)))
  /\ Cardinality(At(Mantissa(body), {"."})) <= 1
  /\ IsDigits(IntPart(body) \o FracPart(body))

RECURSIVE StripZeros(_)
StripZeros(s) == IF s # <<>> /\ s[1] = "0" THEN StripZeros(Tail(s)) ELSE s

\* The exponent written after e/E; one of more than six digits is beyond
\* every double and stands as 1000000.
WrittenExponent(digits) ==
  IF Len(StripZeros(digits)) > 6 THEN 1000000 ELSE DecimalValue(StripZeros(digits))

DecimalExponent(body) ==
  (IF At(body, {"e", "E"}) = {} THEN 0
   ELSE IF Negative(Exponent(body)) THEN 0 - WrittenExponent(Unsigned(Exponent(body)))
   ELSE WrittenExponent(Unsigned(Exponent(body))))
  - Len(FracPart(body))

\* the digits, base and exponent of ten of a literal
Significant(t) ==
  IF Radix(t) # 0 THEN SubSeq(t, 3, Len(t))
  ELSE StripZeros(IntPart(Unsigned(t)) \o FracPart(Unsigned(t)))
LiteralBase(t) == IF Radix(t) # 0 THEN Radix(t) ELSE 10
LiteralExponent(t) == IF Radix(t) # 0 THEN 0 ELSE DecimalExponent(Unsigned(t))

\* The double nearest to significant * 10^exp, the digits read in the base. A
\* decimal of 10^310 or more is Infinity and one below 10^-330 is zero
\* whatever its digits.
LiteralNumber(neg, significant, base, exp) ==
  IF significant = <<>> \/ (base = 10 /\ Len(significant) + exp < -330) THEN Zero(neg)
  ELSE IF base = 10 /\ Len(significant) + exp > 310 THEN Infinity(IF neg THEN -1 ELSE 1)
  ELSE Round(neg,
             Power(FromDigits([k \in 1..Len(significant) |-> RadixDigitVal(significant[k])],
                              base),
                   10, 4, exp),
             Power(<<1>>, 10, 4, 0 - exp))

\* Number of a string without white space around it: "" is 0; the literal is
\* Infinity with an optional sign, a 0x/0o/0b integer without sign, or a
\* decimal with optional sign, fraction and exponent; anything else is NaN.
StringToNumber(t) ==
  IF t = <<>> THEN Zero(FALSE)
  ELSE IF Unsigned(t) = <<"I", "n", "f", "i", "n", "i", "t", "y">>
  THEN Infinity(IF Negative(t) THEN -1 ELSE 1)
  ELSE IF Radix(t) # 0 \/ IsDecimalLiteral(Unsigned(t))
  THEN LiteralNumber(Negative(t), Significant(t), LiteralBase(t), LiteralExponent(t))
  ELSE NaN

\* Number(string): white space around the literal is dropped.
Number(s) == StringToNumber(TrimEnd(TrimStart(s)))

\* String.prototype.lastIndexOf(c, from): indices count from 0, -1 when absent.
lastIndexOf(s, c, from) ==
  LET hits == {k \in 0..(Len(s) - 1) : k <= from /\ s[k + 1] = c}
  IN IF hits = {} THEN -1 ELSE Max(hits)

\* String.prototype.substring(a, b): both ends clamped to the string, swapped
\* when a > b.
substring(s, a, b) ==
  LET ca == IF a < 0 THEN 0 ELSE IF a > Len(s) THEN Len(s) ELSE a
      cb == IF b < 0 THEN 0 ELSE IF b > Len(s) THEN Len(s) ELSE b
      lo == IF ca <= cb THEN ca ELSE cb
      hi == IF ca <= cb THEN cb ELSE ca
  IN [k \in 1..(hi - lo) |-> s[lo + k]]

\* String.prototype.split(sep) for a one-character separator.
RECURSIVE split(_, _)
split(s, sep) ==
  LET hits == {k \in 1..Len(s) : s[k] = sep}
  IN IF hits = {} THEN <<s>>
     ELSE Append(split(SubSeq(s, 1, Max(hits) - 1), sep), SubSeq(s, Max(hits) + 1, Len(s)))

endsWith(s, c) == Len(s) > 0 /\ s[Len(s)] = c

(***************************************************************************)
(* parsePosition and parseRange. A call either returns a value or throws.  *)
(***************************************************************************)
Return(v) == [threw |-> FALSE, error |-> "", value |-> v]
Throw(e) == [threw |-> TRUE, error |-> e, value |-> <<>>]

parsePositionZeroBased(ps) ==
  LET fields == split(ps, ":")
  IN IF Len(fields) # 3
     THEN Throw("expected three fields in position")
     ELSE Return([line |-> Number(fields[1]),
                  column |-> Number(fields[2]),
                  byte |-> Number(fields[3])])

parsePosition(ps) ==
  LET fields == split(ps, ":")
  IN IF Len(fields) # 3
     THEN Throw("expected three fields in position")
     ELSE Return([line |-> Plus(Number(fields[1]), 1),
                  column |-> Plus(Number(fields[2]), 1),
                  byte |-> Number(fields[3])])

parseRangeFirstDash(rs) ==
  LET dashes == {k \in 0..(Len(rs) - 1) : rs[k + 1] = "-"}
      i == IF dashes = {} THEN -1 ELSE CHOOSE k \in dashes : \A m \in dashes : k <= m
      end == substring(rs, i + 1, Len(rs))
      j == lastIndexOf(rs, ",", i)
      start == substring(rs, j + 1, i)
      path == substring(rs, 0, j)
  IN IF i = -1 THEN Throw("missing end field in range")
     ELSE IF j = -1 THEN Throw("missing start field in range")
     ELSE IF parsePosition(start).threw THEN parsePosition(start)
     ELSE IF parsePosition(end).threw THEN parsePosition(end)
     ELSE Return([path |-> path,
                  start |-> parsePosition(start).value,
                  end |-> parsePosition(end).value])

parseRange(rs) ==
  LET i == lastIndexOf(rs, "-", Len(rs))
      end == substring(rs, i + 1, Len(rs))
      j == lastIndexOf(rs, ",", i)
      start == substring(rs, j + 1, i)
      path == substring(rs, 0, j)
  IN IF i = -1 THEN Throw("missing end field in range")
     ELSE IF j = -1 THEN Throw("missing start field in range")
     ELSE IF parsePosition(start).threw THEN parsePosition(start)
     ELSE IF parsePosition(end).threw THEN parsePosition(end)
     ELSE Return([path |-> path,
                  start |-> parsePosition(start).value,
                  end |-> parsePosition(end).value])

\* parseRange(err.range): an error without the field hands undefined to
\* parseRange, whose first statement calls a method on it.
parseErrRange(err) ==
  IF "range" \in DOMAIN err THEN parseRange(err.range)
  ELSE Throw("TypeError: rs is undefined")

(***************************************************************************)
(* The strings handed to the two parsers: every string up to a length over *)
(* the separators and a digit, and ranges and positions written out from   *)
(* numbers the way the compiler writes them.                               *)
(***************************************************************************)
MaxRangeLen == 6
MaxPosLen == 5

Strings(alphabet, n) == UNION {[1..k -> alphabet] : k \in 0..n}

DigitChar(d) == CHOOSE c \in Digits : DigitVal(c) = d

RECURSIVE Decimal(_)
Decimal(n) == IF n < 10 THEN <<DigitChar(n)>> ELSE Append(Decimal(n \div 10), DigitChar(n % 10))

\* line:column:byte as the compiler writes a position
Wire(pos) == Decimal(pos[1]) \o <<":">> \o Decimal(pos[2]) \o <<":">> \o Decimal(pos[3])

WireNumbers == {0, 3, 5, 9, 120, 124}
\* fields that Number reads although they are not runs of digits, and some
\* it does not read
WireLiterals == {<<"1", "e", "3">>, <<"0", "x", "1", "0">>, <<"1", ".", "5">>, <<" ", "7">>,
                 <<"-", "2">>, <<"I", "n", "f", "i", "n", "i", "t", "y">>, <<"x">>,
                 <<"1", "e">>, <<".">>, <<"1", ".", "1", "1">>}
WirePositions == {<<3, 5, 120>>, <<3, 9, 124>>, <<0, 0, 0>>, <<12, 0, 7>>}
WirePaths == {<<>>, <<"a", "-", "b", ".", "d", "2">>, <<"x", ",", "y">>, <<"p", ",", "q", "-">>}

PositionInputs ==
  {[fn |-> "parsePosition", arg |-> s, wire |-> <<>>] : s \in Strings({":", "0", "7"}, MaxPosLen)}
  \cup {[fn |-> "parsePosition", arg |-> Wire(t), wire |-> t] : t \in [1..3 -> WireNumbers]}
  \cup {[fn |-> "parsePosition", arg |-> a \o <<":">> \o b \o <<":">> \o c, wire |-> <<>>] :
         a \in WireLiterals, b \in WireLiterals, c \in WireLiterals}

RangeInputs ==
  {[fn |-> "parseRange", arg |-> s, wire |-> <<>>] :
     s \in Strings({"-", ",", ":", "1"}, MaxRangeLen)}
  \cup {[fn |-> "parseRange", arg |-> p \o <<",">> \o Wire(a) \o <<"-">> \o Wire(b),
         wire |-> <<p, a, b>>] : p \in WirePaths, a \in WirePositions, b \in WirePositions}

NoParse == [fn |-> "none", arg |-> <<>>, wire |-> <<>>]
NotApplied == [applied |-> FALSE, result |-> Return(<<>>)]

(***************************************************************************)
(* The errors a compile can report.                                        *)
(***************************************************************************)
\* "f,0:1:2-0:3:4"
ErrA == [errmsg |-> "a",
         range |-> <<"f", ",", "0", ":", "1", ":", "2", "-", "0", ":", "3", ":", "4">>]
\* ",1:0:5-2:7:9": an empty path
ErrB == [errmsg |-> "b",
         range |-> <<",", "1", ":", "0", ":", "5", "-", "2", ":", "7", ":", "9">>]
\* "a-b.d2,3:5:120-3:9:124": a path with a '-' in it
ErrC == [errmsg |-> "c",
         range |-> <<"a", "-", "b", ".", "d", "2", ",", "3", ":", "5", ":", "1", "2", "0",
                     "-", "3", ":", "9", ":", "1", "2", "4">>]
\* an error without a range
ErrNoRange == [errmsg |-> "n"]
\* "f,0:1:2": no '-'
ErrNoDash == [errmsg |-> "d", range |-> <<"f", ",", "0", ":", "1", ":", "2">>]
\* "0:1:2-0:3:4": no ',' before the last '-'
ErrNoComma == [errmsg |-> "k",
               range |-> <<"0", ":", "1", ":", "2", "-", "0", ":", "3", ":", "4">>]
\* "f,0:1-0:3:4": a start position of two fields
ErrTwoFields == [errmsg |-> "t",
                 range |-> <<"f", ",", "0", ":", "1", "-", "0", ":", "3", ":", "4">>]

GoodErrs == <<ErrA, ErrB, ErrC>>
BadErrs == {ErrNoRange, ErrNoDash, ErrNoComma, ErrTwoFields}

\* parseRange(err.range) of every error of the inputs, computed once.
ParsedRange == [err \in Range(GoodErrs) \cup BadErrs |-> parseErrRange(err)]

(***************************************************************************)
(* The editor capability, as the code uses it.                             *)
(***************************************************************************)
\* deltaDecorations(old, new) on an editor that holds the decorations
\* `installed` and has handed out `next` handles: the handles of old that are
\* installed are removed, the others ignored; each new decoration gets a
\* fresh handle.
deltaDecorationsOn(installed, next, old, new) ==
  LET kept == DOMAIN installed \ Range(old)
      ids == [k \in 1..Len(new) |-> next + k]
  IN [handles |-> ids,
      next |-> next + Len(new),
      decorations |-> [h \in kept \cup Range(ids) |->
                         IF h \in kept THEN installed[h] ELSE new[h - next]]]

\* monacoEditor.deltaDecorations(old, new)
deltaDecorations(old, new) == deltaDecorationsOn(decorations, nextDecorationId, old, new)

\* The gutter decoration and the underline marker of an error whose range
\* has been parsed to `range`.
GutterDecorationAt(range) ==
  [range |-> [startLineNumber |-> range.start.line, startColumn |-> range.start.column,
              endLineNumber |-> range.end.line, endColumn |-> range.end.column],
   options |-> [marginClassName |-> "ErrorLineGutter"]]

UnderlineMarkerAt(err, range) ==
  [startLineNumber |-> range.start.line, endLineNumber |-> range.end.line,
   startColumn |-> range.start.column, endColumn |-> range.end.column,
   message |-> err.errmsg, severity |-> "Error"]

GutterDecoration(err) == GutterDecorationAt(ParsedRange[err].value)

UnderlineMarker(err) == UnderlineMarkerAt(err, ParsedRange[err].value)

(***************************************************************************)
(* The diagnostics presenter.                                              *)
(***************************************************************************)
ErrorLinesOffByOne(errs) ==
  LET shown == IF Len(errs) >= MAX_ERRORS
               THEN Append(SubSeq(errs, 1, MAX_ERRORS),
                           [errmsg |-> "... and " \o ToString(Len(errs) - MAX_ERRORS)
                                         \o " more error(s)"])
               ELSE errs
  IN [k \in 1..Len(shown) |-> shown[k].errmsg]

\* The lines of the error panel: one div per error, in order, after the list
\* has been cut to MAX_ERRORS and a summary entry appended.
ErrorLines(errs) ==
  LET shown == IF Len(errs) > MAX_ERRORS
               THEN Append(SubSeq(errs, 1, MAX_ERRORS),
                           [errmsg |-> "... and " \o ToString(Len(errs) - MAX_ERRORS)
                                         \o " more error(s)"])
               ELSE errs
  IN [k \in 1..Len(shown) |-> shown[k].errmsg]

\* errs.map(err => parseRange(err.range) ...) throws at the first error whose
\* range does not parse, before deltaDecorations is called.
DisplayThrows(errs) == \E k \in 1..Len(errs) : ParsedRange[errs[k]].threw

displayCompileErrorsKeepsOld(errs) ==
  IF DisplayThrows(errs)
  THEN /\ lastCall' = [op |-> "display", errs |-> errs, threw |-> TRUE]
       /\ UNCHANGED <<monacoLineDecorators, decorations, nextDecorationId, markers, errorsPanel,
                      lastReturned>>
  ELSE LET dd == deltaDecorations(<<>>, [k \in 1..Len(errs) |-> GutterDecoration(errs[k])])
       IN /\ monacoLineDecorators' = dd.handles
          /\ decorations' = dd.decorations
          /\ nextDecorationId' = dd.next
          /\ markers' = [k \in 1..Len(errs) |-> UnderlineMarker(errs[k])]
          /\ errorsPanel' = [innerHTML |-> ErrorLines(errs), display |-> "block"]
          /\ lastCall' = [op |-> "display", errs |-> errs, threw |-> FALSE]
          /\ lastReturned' = [op |-> "display", errs |-> errs]

displayCompileErrors(errs) ==
  IF DisplayThrows(errs)
  THEN /\ lastCall' = [op |-> "display", errs |-> errs, threw |-> TRUE]
       /\ UNCHANGED <<monacoLineDecorators, decorations, nextDecorationId, markers, errorsPanel,
                      lastReturned>>
  ELSE LET dd == deltaDecorations(monacoLineDecorators,
                                  [k \in 1..Len(errs) |-> GutterDecoration(errs[k])])
       IN /\ monacoLineDecorators' = dd.handles
          /\ decorations' = dd.decorations
          /\ nextDecorationId' = dd.next
          /\ markers' = [k \in 1..Len(errs) |-> UnderlineMarker(errs[k])]
          /\ errorsPanel' = [innerHTML |-> ErrorLines(errs), display |-> "block"]
          /\ lastCall' = [op |-> "display", errs |-> errs, threw |-> FALSE]
          /\ lastReturned' = [op |-> "display", errs |-> errs]

clearCompileErrorsKeepsMarkers ==
  LET dd == deltaDecorations(monacoLineDecorators, <<>>)
  IN /\ decorations' = dd.decorations
     /\ nextDecorationId' = dd.next
     /\ errorsPanel' = [innerHTML |-> <<>>, display |-> "none"]
     /\ lastCall' = [op |-> "clear", errs |-> <<>>, threw |-> FALSE]
     /\ lastReturned' = [op |-> "clear", errs |-> <<>>]
     /\ UNCHANGED <<monacoLineDecorators, markers>>

\* The handle list returned by deltaDecorations is dropped here:
\* monacoLineDecorators keeps the handles just removed.
clearCompileErrors ==
  LET dd == deltaDecorations(monacoLineDecorators, <<>>)
  IN /\ decorations' = dd.decorations
     /\ nextDecorationId' = dd.next
     /\ markers' = <<>>
     /\ errorsPanel' = [innerHTML |-> <<>>, display |-> "none"]
     /\ lastCall' = [op |-> "clear", errs |-> <<>>, threw |-> FALSE]
     /\ lastReturned' = [op |-> "clear", errs |-> <<>>]
     /\ UNCHANGED monacoLineDecorators

(***************************************************************************)
(* Inputs: what the compiler, the encoder, the user and the render service *)
(* can hand to the code.                                                   *)
(***************************************************************************)
\* n errors with well-formed ranges, taken in turn from GoodErrs starting after s.
GoodSeq(n, s) == [k \in 1..n |-> GoodErrs[((s + k) % Len(GoodErrs)) + 1]]

\* The error lists handed to displayCompileErrors: every length up to MaxErrs
\* with all ranges well-formed, and short lists with one bad error first or last.
ErrInputs ==
  {GoodSeq(n, s) : n \in 0..MaxErrs, s \in 1..2}
  \cup UNION {{<<b>> \o GoodSeq(n, 1), GoodSeq(n, 2) \o <<b>>} : n \in 0..2, b \in BadErrs}

\* The serialized payloads of the userError field, and JSON.parse of them.
UserErrorTexts == {"{errs:[b,c]}", "{errs:[a,n]}", "{errs:[d]}"}

JSONparse(text) ==
  CASE text = "{errs:[b,c]}" -> [errs |-> <<ErrB, ErrC>>]
    [] text = "{errs:[a,n]}" -> [errs |-> <<ErrA, ErrNoRange>>]
    [] text = "{errs:[d]}" -> [errs |-> <<ErrNoDash>>]

\* The editor texts: the default script, the script of a shared link, and the
\* script the compiler hands back.
Default == <<"x">>
Shared == <<"y", "\n">>
Scripts == {Default, Shared}
Formatted == <<"z", "\n">>

\* d2Encode: {result}, "" on failure.
EncodeResults == {[result |-> ""], [result |-> "E1"]}

\* A page opened from a shared link carries script=E0, which decodes to Shared.
SharedParam == "E0"

\* d2Compile: the empty string, or {result, userError, d2Error}. The fields are
\* exclusive by convention only: one field set, none set, and several set.
Compiled(result, userError, d2Error) ==
  [empty |-> FALSE, result |-> result, userError |-> userError, d2Error |-> d2Error]

CompileResults ==
  {[empty |-> TRUE, result |-> <<>>, userError |-> "", d2Error |-> ""],
   Compiled(Formatted, "", ""),
   Compiled(<<>>, "{errs:[b,c]}", ""),
   Compiled(<<>>, "{errs:[a,n]}", ""),
   Compiled(<<>>, "{errs:[d]}", ""),
   Compiled(<<>>, "", "panic"),
   Compiled(<<>>, "", ""),
   Compiled(Formatted, "{errs:[b,c]}", "panic"),
   Compiled(<<>>, "{errs:[b,c]}", "panic")}

\* The statuses of the render endpoint, and Response.ok.
Statuses == {200, 403, 404, 500}
ResponseOk(status) == status >= 200 /\ status <= 299

\* A response body as the code sees it: the number of top-level nodes it
\* parses to (the diagram is the third), and whether the third is an element.
\* The diagram region holds the request its markup answers and that number.
Bodies == {[nodes |-> 2, third |-> "none"], [nodes |-> 3, third |-> "element"],
           [nodes |-> 3, third |-> "comment"]}
NoMarkup == [request |-> 0, nodes |-> 0]

(***************************************************************************)
(* The presenter called from outside (displayCompileErrors and             *)
(* clearCompileErrors are exported).                                       *)
(***************************************************************************)
DisplayCompileErrors ==
  \E errs \in ErrInputs :
    /\ nextDecorationId + Len(errs) <= MaxDecorationId
    /\ displayCompileErrors(errs)
    /\ UNCHANGED <<pipelineVars, parserVars>>

ClearCompileErrors ==
  /\ clearCompileErrors
  /\ UNCHANGED <<pipelineVars, parserVars>>

(***************************************************************************)
(* compile()                                                               *)
(***************************************************************************)
Event(op, arg) == [op |-> op, arg |-> arg]

NoEncodeResult == [result |-> ""]
NoCompiled == [empty |-> TRUE, result |-> <<>>, userError |-> "", d2Error |-> ""]
NoFrame == [encodeResult |-> NoEncodeResult, compiled |-> NoCompiled, status |-> 0,
            outcome |-> "none"]

\* Invocation i goes to `state` with `outcome`, having made the calls `events`.
Finish(i, state, outcome, events) ==
  /\ pc' = [pc EXCEPT ![i] = state]
  /\ frame' = [frame EXCEPT ![i].outcome = outcome]
  /\ trace' = [trace EXCEPT ![i] = trace[i] \o events]

\* The same for the first run of compile(), which sets its locals.
Begin(i, state, outcome, encodeResult, compiled, events) ==
  /\ pc' = [pc EXCEPT ![i] = state]
  /\ frame' = [frame EXCEPT ![i] = [encodeResult |-> encodeResult, compiled |-> compiled,
                                    status |-> 0, outcome |-> outcome]]
  /\ trace' = [trace EXCEPT ![i] = events]

\* The lock check: a locked button ends the call at once.
CompileRejected(i) ==
  /\ Begin(i, "returned", "rejected", NoEncodeResult, NoCompiled, <<>>)
  /\ UNCHANGED <<presenterVars, locked, editorValue, queryScript, loader, renderSvg>>

EncodeFailedWritesParam(i, encodeResult) ==
  /\ locked' = TRUE
  /\ queryScript' = encodeResult.result
  /\ Begin(i, "returned", "encodeFailure", encodeResult, NoCompiled,
           <<Event("lockCompileBtn", ""), Event("d2Encode", ""),
             Event("QueryParams.set", encodeResult.result),
             Event("Alert.show", "encoding error")>>)
  /\ UNCHANGED <<presenterVars, editorValue, loader, renderSvg>>

\* The calls of an invocation whose encoding failed.
EncodeFailedCalls ==
  <<Event("lockCompileBtn", ""), Event("d2Encode", ""), Event("Alert.show", "encoding error")>>

\* The encoder's result is empty: alert and return.
EncodeFailed(i, encodeResult) ==
  /\ locked' = TRUE
  /\ Begin(i, "returned", "encodeFailure", encodeResult, NoCompiled, EncodeFailedCalls)
  /\ UNCHANGED <<presenterVars, editorValue, queryScript, loader, renderSvg>>

\* The calls of every invocation that got past the encoder, up to d2Compile.
Prologue(encoded) ==
  <<Event("lockCompileBtn", ""), Event("d2Encode", ""),
    Event("QueryParams.set", encoded), Event("d2Compile", "")>>

\* The calls of an invocation on each path through the compiler's result, up
\* to its return, its exception or its first await.
UserErrorCalls(encoded, threw) ==
  Prologue(encoded)
  \o (IF threw THEN <<Event("displayCompileErrors", "")>>
      ELSE <<Event("displayCompileErrors", ""), Event("unlockCompileBtn", "")>>)

InternalErrorCalls(encoded) ==
  Prologue(encoded) \o <<Event("unlockCompileBtn", ""), Event("Alert.show", "compile error")>>

StartRenderCalls(encoded, formatted) ==
  Prologue(encoded)
  \o (IF formatted THEN <<Event("setScript", "")>> ELSE <<>>)
  \o <<Event("clearCompileErrors", ""), Event("showLoader", ""), Event("fetch", encoded)>>

\* parsed.userError is not empty: show the errors, unlock, return. An
\* exception of displayCompileErrors leaves compile() before the unlock.
UserError(i, encodeResult, compiled) ==
  LET errs == JSONparse(compiled.userError).errs
      encoded == encodeResult.result
  IN /\ queryScript' = encoded
     /\ displayCompileErrors(errs)
     /\ IF DisplayThrows(errs)
        THEN /\ locked' = TRUE
             /\ Begin(i, "threw", "rangeError", encodeResult, compiled,
                      UserErrorCalls(encoded, TRUE))
        ELSE /\ locked' = FALSE
             /\ Begin(i, "returned", "userError", encodeResult, compiled,
                      UserErrorCalls(encoded, FALSE))
     /\ UNCHANGED <<editorValue, loader, renderSvg>>

InternalErrorDropsParam(i, encodeResult, compiled) ==
  LET encoded == encodeResult.result
  IN /\ queryScript' = ""
     /\ locked' = FALSE
     /\ Begin(i, "returned", "internalError", encodeResult, compiled,
              Prologue(encoded) \o <<Event("unlockCompileBtn", ""),
                                     Event("Alert.show", "compile error")>>)
     /\ UNCHANGED <<presenterVars, editorValue, loader, renderSvg>>

\* parsed.d2Error is not empty: unlock, alert, return.
InternalError(i, encodeResult, compiled) ==
  LET encoded == encodeResult.result
  IN /\ queryScript' = encoded
     /\ locked' = FALSE
     /\ Begin(i, "returned", "internalError", encodeResult, compiled,
              InternalErrorCalls(encoded))
     /\ UNCHANGED <<presenterVars, editorValue, loader, renderSvg>>

StartRenderNoClear(i, encodeResult, compiled) ==
  LET formatted == ~compiled.empty /\ compiled.result # <<>>
      encoded == encodeResult.result
  IN /\ queryScript' = encoded
     /\ locked' = TRUE
     /\ editorValue' = IF formatted THEN compiled.result ELSE editorValue
     /\ loader' = "flex"
     /\ Begin(i, "fetch", "rendering", encodeResult, compiled,
              Prologue(encoded)
              \o (IF formatted THEN <<Event("setScript", "")>> ELSE <<>>)
              \o <<Event("showLoader", ""), Event("fetch", encoded)>>)
     /\ UNCHANGED <<presenterVars, renderSvg>>

\* Every other result: clear the diagnostics, show the loader, send the
\* render request and wait for it. setScript runs first when result is not empty.
StartRender(i, encodeResult, compiled) ==
  LET formatted == ~compiled.empty /\ compiled.result # <<>>
      encoded == encodeResult.result
  IN /\ queryScript' = encoded
     /\ locked' = TRUE
     /\ editorValue' = IF formatted THEN compiled.result ELSE editorValue
     /\ clearCompileErrors
     /\ loader' = "flex"
     /\ Begin(i, "fetch", "rendering", encodeResult, compiled,
              StartRenderCalls(encoded, formatted))
     /\ UNCHANGED renderSvg

compileNoLockCheck(i, encodeResult, compiled) ==
  IF encodeResult.result = "" THEN EncodeFailed(i, encodeResult)
  ELSE IF ~compiled.empty /\ compiled.result = <<>> /\ compiled.userError # ""
       THEN UserError(i, encodeResult, compiled)
  ELSE IF ~compiled.empty /\ compiled.result = <<>> /\ compiled.d2Error # ""
       THEN InternalError(i, encodeResult, compiled)
  ELSE StartRender(i, encodeResult, compiled)

\* compile() from its first statement to its first await or its return.
compile(i, encodeResult, compiled) ==
  IF locked THEN CompileRejected(i)
  ELSE IF encodeResult.result = "" THEN EncodeFailed(i, encodeResult)
  ELSE IF ~compiled.empty /\ compiled.result = <<>> /\ compiled.userError # ""
       THEN UserError(i, encodeResult, compiled)
  ELSE IF ~compiled.empty /\ compiled.result = <<>> /\ compiled.d2Error # ""
       THEN InternalError(i, encodeResult, compiled)
  ELSE StartRender(i, encodeResult, compiled)

\* A compile action after init(): the button or Ctrl/Cmd+S.
Compile ==
  \E encodeResult \in EncodeResults, compiled \in CompileResults :
    /\ nInv < MaxInv
    /\ nInv' = nInv + 1
    /\ compile(nInv + 1, encodeResult, compiled)
    /\ UNCHANGED parserVars

\* fetch() rejects: alert, hide the loader, unlock, return.
FetchRejects(i) ==
  /\ pc[i] = "fetch"
  /\ loader' = "none"
  /\ locked' = FALSE
  /\ Finish(i, "returned", "network",
            <<Event("Alert.show", "unexpected error, check the connection"),
              Event("hideLoader", ""), Event("unlockCompileBtn", "")>>)
  /\ UNCHANGED <<presenterVars, editorValue, queryScript, renderSvg, nInv>>

\* The response of invocation i has arrived with `status`.
Received(i, status, state, outcome, events) ==
  /\ pc' = [pc EXCEPT ![i] = state]
  /\ frame' = [frame EXCEPT ![i].status = status, ![i].outcome = outcome]
  /\ trace' = [trace EXCEPT ![i] = trace[i] \o events]

FetchResolvesNoUnlock(i, status) ==
  LET done == <<Event("hideLoader", "")>>
  IN /\ pc[i] = "fetch"
     /\ loader' = "none"
     /\ IF status = 500
        THEN Received(i, status, "returned", "http500",
                      done \o <<Event("Alert.show", "API error")>>)
        ELSE IF status = 403
        THEN Received(i, status, "returned", "http403",
                      done \o <<Event("Alert.show", "too much")>>)
        ELSE IF ~ResponseOk(status)
        THEN Received(i, status, "returned", "httpOther",
                      done \o <<Event("Alert.show", "unexpected error")>>)
        ELSE Received(i, status, "text", "rendering", done \o <<Event("response.text", "")>>)
     /\ UNCHANGED <<presenterVars, locked, editorValue, queryScript, renderSvg, nInv>>

FetchResolvesOkFirst(i, status) ==
  LET done == <<Event("hideLoader", ""), Event("unlockCompileBtn", "")>>
  IN /\ pc[i] = "fetch"
     /\ loader' = "none"
     /\ locked' = FALSE
     /\ IF ~ResponseOk(status)
        THEN Received(i, status, "returned", "httpOther",
                      done \o <<Event("Alert.show", "unexpected error")>>)
        ELSE Received(i, status, "text", "rendering", done \o <<Event("response.text", "")>>)
     /\ UNCHANGED <<presenterVars, editorValue, queryScript, renderSvg, nInv>>

\* fetch() resolves: hide the loader, unlock, then look at the status; a
\* response that is ok is read, and compile() waits for its body.
FetchResolves(i, status) ==
  LET done == <<Event("hideLoader", ""), Event("unlockCompileBtn", "")>>
  IN /\ pc[i] = "fetch"
     /\ loader' = "none"
     /\ locked' = FALSE
     /\ IF status = 500
        THEN Received(i, status, "returned", "http500",
                      done \o <<Event("Alert.show", "API error")>>)
        ELSE IF status = 403
        THEN Received(i, status, "returned", "http403",
                      done \o <<Event("Alert.show", "too much")>>)
        ELSE IF ~ResponseOk(status)
        THEN Received(i, status, "returned", "httpOther",
                      done \o <<Event("Alert.show", "unexpected error")>>)
        ELSE Received(i, status, "text", "rendering", done \o <<Event("response.text", "")>>)
     /\ UNCHANGED <<presenterVars, editorValue, queryScript, renderSvg, nInv>>

\* The body has been read: it replaces the diagram, its third node becomes
\* #diagram, and the button is unlocked again. A body of fewer nodes throws
\* at svgEl, before Zoom.attach and the unlock; a third node that is not an
\* element throws at svgEl.setAttribute, after Zoom.attach and before the unlock.
TextResolves(i, body) ==
  /\ pc[i] = "text"
  /\ renderSvg' = [request |-> i, nodes |-> body.nodes]
  /\ IF body.nodes < 3
     THEN /\ Finish(i, "threw", "domError", <<Event("renderEl.innerHTML", "")>>)
          /\ UNCHANGED locked
     ELSE IF body.third # "element"
     THEN /\ Finish(i, "threw", "attributeError",
                    <<Event("renderEl.innerHTML", ""), Event("Zoom.attach", "")>>)
          /\ UNCHANGED locked
     ELSE /\ Finish(i, "returned", "success",
                    <<Event("renderEl.innerHTML", ""), Event("Zoom.attach", ""),
                      Event("unlockCompileBtn", "")>>)
          /\ locked' = FALSE
  /\ UNCHANGED <<presenterVars, editorValue, queryScript, loader, nInv>>

\* Reading the body fails: the rejection leaves compile().
TextRejects(i) ==
  /\ pc[i] = "text"
  /\ Finish(i, "threw", "bodyError", <<>>)
  /\ UNCHANGED <<presenterVars, locked, editorValue, queryScript, loader, renderSvg, nInv>>

\* The user edits the script.
EditScript ==
  \E s \in Scripts :
    /\ s # editorValue
    /\ editorValue' = s
    /\ UNCHANGED <<presenterVars, locked, queryScript, loader, renderSvg, nInv, pc, frame, trace,
                   parserVars>>

(***************************************************************************)
(* Specifications.                                                         *)
(***************************************************************************)
\* The page as init() finds it: nothing compiled, nothing shown, the button
\* not locked. The script is the default one, or that of a shared link.
Opened == {[param |-> "", script |-> Default], [param |-> SharedParam, script |-> Shared]}

\* The presenter before its first call, and after a call on that state:
\* displayCompileErrors(errs), where parsed[k] is parseRange of the k-th
\* error's range, and clearCompileErrors().
NoPresenterCall ==
  /\ monacoLineDecorators = <<>>
  /\ decorations = <<>>
  /\ nextDecorationId = 0
  /\ markers = <<>>
  /\ errorsPanel = [innerHTML |-> <<>>, display |-> ""]
  /\ lastCall = [op |-> "none", errs |-> <<>>, threw |-> FALSE]
  /\ lastReturned = [op |-> "none", errs |-> <<>>]

FirstDisplay(errs, parsed) ==
  IF \E k \in 1..Len(errs) : parsed[k].threw
  THEN /\ monacoLineDecorators = <<>>
       /\ decorations = <<>>
       /\ nextDecorationId = 0
       /\ markers = <<>>
       /\ errorsPanel = [innerHTML |-> <<>>, display |-> ""]
       /\ lastCall = [op |-> "display", errs |-> errs, threw |-> TRUE]
       /\ lastReturned = [op |-> "none", errs |-> <<>>]
  ELSE LET dd == deltaDecorationsOn(<<>>, 0, <<>>,
                                    [k \in 1..Len(errs) |-> GutterDecorationAt(parsed[k].value)])
       IN /\ monacoLineDecorators = dd.handles
          /\ decorations = dd.decorations
          /\ nextDecorationId = dd.next
          /\ markers = [k \in 1..Len(errs) |-> UnderlineMarkerAt(errs[k], parsed[k].value)]
          /\ errorsPanel = [innerHTML |-> ErrorLines(errs), display |-> "block"]
          /\ lastCall = [op |-> "display", errs |-> errs, threw |-> FALSE]
          /\ lastReturned = [op |-> "display", errs |-> errs]

FirstClear ==
  LET dd == deltaDecorationsOn(<<>>, 0, <<>>, <<>>)
  IN /\ monacoLineDecorators = <<>>
     /\ decorations = dd.decorations
     /\ nextDecorationId = dd.next
     /\ markers = <<>>
     /\ errorsPanel = [innerHTML |-> <<>>, display |-> "none"]
     /\ lastCall = [op |-> "clear", errs |-> <<>>, threw |-> FALSE]
     /\ lastReturned = [op |-> "clear", errs |-> <<>>]

\* Invocation 1 stands at `state` with `outcome`, having made the calls `events`.
Began(state, outcome, encodeResult, compiled, events) ==
  /\ nInv = 1
  /\ pc = [i \in 1..MaxInv |-> IF i = 1 THEN state ELSE "none"]
  /\ frame = [i \in 1..MaxInv |->
               IF i = 1 THEN [encodeResult |-> encodeResult, compiled |-> compiled,
                              status |-> 0, outcome |-> outcome]
               ELSE NoFrame]
  /\ trace = [i \in 1..MaxInv |-> IF i = 1 THEN events ELSE <<>>]

\* The state init() leaves: init() ends with a call of compile() (the button
\* is not locked then), which runs to its return, its exception or its first
\* await before anything else can happen. That call is invocation 1.
Init ==
  \E opened \in Opened, encodeResult \in EncodeResults, compiled \in CompileResults :
    /\ renderSvg = NoMarkup
    /\ parseIn = NoParse
    /\ parseOut = NotApplied
    /\ IF encodeResult.result = ""
       THEN /\ locked = TRUE
            /\ queryScript = opened.param
            /\ editorValue = opened.script
            /\ loader = ""
            /\ NoPresenterCall
            /\ Began("returned", "encodeFailure", encodeResult, NoCompiled, EncodeFailedCalls)
       ELSE IF ~compiled.empty /\ compiled.result = <<>> /\ compiled.userError # ""
       THEN /\ queryScript = encodeResult.result
            /\ editorValue = opened.script
            /\ loader = ""
            /\ FirstDisplay(JSONparse(compiled.userError).errs,
                            [k \in 1..Len(JSONparse(compiled.userError).errs) |->
                               ParsedRange[JSONparse(compiled.userError).errs[k]]])
            /\ locked = lastCall.threw
            /\ IF lastCall.threw
               THEN Began("threw", "rangeError", encodeResult, compiled,
                          UserErrorCalls(encodeResult.result, TRUE))
               ELSE Began("returned", "userError", encodeResult, compiled,
                          UserErrorCalls(encodeResult.result, FALSE))
       ELSE IF ~compiled.empty /\ compiled.result = <<>> /\ compiled.d2Error # ""
       THEN /\ locked = FALSE
            /\ queryScript = encodeResult.result
            /\ editorValue = opened.script
            /\ loader = ""
            /\ NoPresenterCall
            /\ Began("returned", "internalError", encodeResult, compiled,
                     InternalErrorCalls(encodeResult.result))
       ELSE /\ locked = TRUE
            /\ queryScript = encodeResult.result
            /\ editorValue = IF ~compiled.empty /\ compiled.result # <<>>
                             THEN compiled.result ELSE opened.script
            /\ loader = "flex"
            /\ FirstClear
            /\ Began("fetch", "rendering", encodeResult, compiled,
                     StartRenderCalls(encodeResult.result,
                                      ~compiled.empty /\ compiled.result # <<>>))

FetchCompletes ==
  /\ \E i \in 1..MaxInv : FetchRejects(i) \/ \E status \in Statuses : FetchResolves(i, status)
  /\ UNCHANGED parserVars

TextCompletes ==
  /\ \E i \in 1..MaxInv : TextRejects(i) \/ \E body \in Bodies : TextResolves(i, body)
  /\ UNCHANGED parserVars

\* The pipeline: compile actions, edits, and completions of the remote calls.
Next == Compile \/ EditScript \/ FetchCompletes \/ TextCompletes

Spec == Init /\ [][Next]_vars

\* The presenter under any sequence of calls.
NextPresenter == DisplayCompileErrors \/ ClearCompileErrors

SpecPresenter == Init /\ [][NextPresenter]_vars

\* The range grammar: parseRange and parsePosition applied to one input.
InitParser ==
  /\ monacoLineDecorators = <<>>
  /\ decorations = <<>>
  /\ nextDecorationId = 0
  /\ markers = <<>>
  /\ errorsPanel = [innerHTML |-> <<>>, display |-> ""]
  /\ lastCall = [op |-> "none", errs |-> <<>>, threw |-> FALSE]
  /\ lastReturned = [op |-> "none", errs |-> <<>>]
  /\ locked = FALSE
  /\ queryScript = ""
  /\ editorValue = Default
  /\ loader = ""
  /\ renderSvg = NoMarkup
  /\ nInv = 0
  /\ pc = [i \in 1..MaxInv |-> "none"]
  /\ frame = [i \in 1..MaxInv |-> NoFrame]
  /\ trace = [i \in 1..MaxInv |-> <<>>]
  /\ parseIn \in RangeInputs \cup PositionInputs
  /\ parseOut = NotApplied

ApplyParseRange ==
  /\ parseIn.fn = "parseRange"
  /\ ~parseOut.applied
  /\ parseOut' = [applied |-> TRUE, result |-> parseRange(parseIn.arg)]
  /\ UNCHANGED <<presenterVars, pipelineVars, parseIn>>

ApplyParsePosition ==
  /\ parseIn.fn = "parsePosition"
  /\ ~parseOut.applied
  /\ parseOut' = [applied |-> TRUE, result |-> parsePosition(parseIn.arg)]
  /\ UNCHANGED <<presenterVars, pipelineVars, parseIn>>

NextParser == ApplyParseRange \/ ApplyParsePosition

SpecParser == InitParser /\ [][NextParser]_vars

(***************************************************************************)
(* Properties.                                                             *)
(***************************************************************************)
Ended(i) == pc[i] \in {"returned", "threw"}
InFlight(i) == pc[i] \in {"fetch", "text"}

\* The places in a trace of the calls of one capability.
CallsIn(tr, op) == {k \in 1..Len(tr) : tr[k].op = op}
Calls(i, op) == CallsIn(trace[i], op)
Alerts(i, kind) == {k \in Calls(i, "Alert.show") : trace[i][k].arg = kind}

\* C1: in every reachable state at most one invocation of compile() is in
\* flight: past the lock check and not yet at its last statement, the wait
\* for the response body included.
C1_MutualExclusion == Cardinality({i \in 1..MaxInv : InFlight(i)}) <= 1

\* C2: an invocation that got past the lock check and the encoder, and
\* returns, leaves the button unlocked at the moment it returns, whichever of
\* the seven outcomes it ends in.
C2_UnlockedAtReturn ==
  [][\A i \in 1..MaxInv :
       (~Ended(i) /\ pc'[i] = "returned" /\ CallsIn(trace'[i], "QueryParams.set") # {})
       => /\ frame'[i].outcome \in {"success", "userError", "internalError", "network",
                                    "http500", "http403", "httpOther"}
          /\ ~locked']_vars

C2_Witness ==
  /\ frame[1].outcome = "http403"
  /\ frame[2].outcome = "success"
  /\ ~locked

\* C3: when the encoder returns an empty result, compile() returns with the
\* button unlocked.
C3_EncodeFailureUnlocks ==
  [][\A i \in 1..MaxInv :
       (pc[i] = "none" /\ pc'[i] = "returned" /\ CallsIn(trace'[i], "d2Encode") # {}
        /\ frame'[i].encodeResult.result = "")
       => ~locked']_vars

\* C4: a compile() made while the button is locked returns at once, changes
\* nothing (lock, editor text, query parameter, decorations, markers, error
\* panel, loader, diagram, the other invocations), calls no capability, and
\* is not run later.
C4_RejectedNotQueued ==
  [][/\ (nInv' = nInv + 1 /\ locked)
        => /\ UNCHANGED <<locked, editorValue, queryScript, monacoLineDecorators, decorations,
                          markers, errorsPanel, loader, renderSvg>>
           /\ pc'[nInv'] = "returned"
           /\ trace'[nInv'] = <<>>
           /\ frame'[nInv'].outcome = "rejected"
           /\ \A j \in 1..MaxInv : j # nInv' => pc'[j] = pc[j] /\ trace'[j] = trace[j]
     /\ \A i \in 1..MaxInv :
          frame[i].outcome = "rejected"
          => pc'[i] = "returned" /\ trace'[i] = <<>> /\ frame'[i] = frame[i]]_vars

C4_Witness ==
  /\ frame[2].outcome = "rejected"
  /\ trace[2] = <<>>
  /\ pc[1] = "returned"
  /\ ~locked

\* C5: the result of the compiler is classified in the order result,
\* userError, d2Error: a non-empty result is a success (the render request is
\* sent), else a non-empty userError is a user error (the errors are
\* displayed, nothing is sent), and every other combination, all three empty
\* included, is an internal error: the generic alert, no render request, no
\* change of the diagnostics.
C5_Classification ==
  \A i \in 1..MaxInv :
    (Calls(i, "d2Compile") # {} /\ ~frame[i].compiled.empty)
    => IF frame[i].compiled.result # <<>>
       THEN /\ Calls(i, "fetch") # {}
            /\ Calls(i, "displayCompileErrors") = {}
            /\ Alerts(i, "compile error") = {}
       ELSE IF frame[i].compiled.userError # ""
       THEN /\ Calls(i, "displayCompileErrors") # {}
            /\ Calls(i, "fetch") = {}
            /\ Alerts(i, "compile error") = {}
       ELSE /\ Alerts(i, "compile error") # {}
            /\ Calls(i, "fetch") = {}
            /\ Calls(i, "displayCompileErrors") = {}
            /\ Calls(i, "clearCompileErrors") = {}

\* The parts of C6 that do not depend on what counts as an internal error:
\* an invocation sends at most one render request, exactly one when the
\* compiler's result is not empty, none when the encoder fails, and still one
\* after the request has failed in any of the four ways.
C6_AtMostOneRequest ==
  \A i \in 1..MaxInv :
    LET requests == Cardinality(Calls(i, "fetch"))
        compiled == frame[i].compiled
    IN /\ requests <= 1
       /\ (Calls(i, "d2Compile") # {} /\ ~compiled.empty /\ compiled.result # <<>>)
          => requests = 1
       /\ (Calls(i, "d2Encode") # {} /\ frame[i].encodeResult.result = "") => requests = 0
       /\ (Ended(i) /\ frame[i].outcome \in {"network", "http500", "http403", "httpOther"})
          => requests = 1

\* C6: an invocation sends at most one render request: exactly one when the
\* compiler's result is not empty, none when the encoder fails, on a user
\* error and on an internal error, and still one after the request has failed
\* in any of the four ways. The outcomes of the compile step are those of C5:
\* an empty result with a userError is a user error, and an empty result
\* without one, all three fields empty included, is an internal error.
C6_NoRetry ==
  /\ C6_AtMostOneRequest
  /\ \A i \in 1..MaxInv :
       (Calls(i, "d2Compile") # {} /\ ~frame[i].compiled.empty
        /\ frame[i].compiled.result = <<>>)
       => Calls(i, "fetch") = {}

\* C7: the query parameter changes only when an invocation's encoder returns
\* a non-empty value: it is then set to that value before the compiler runs;
\* a failed encoding, a rejected call and every later step (user error,
\* internal error, render failure, success) leave it as it is.
C7_QueryParam ==
  [][IF nInv' = nInv + 1 /\ CallsIn(trace'[nInv'], "d2Encode") # {}
        /\ frame'[nInv'].encodeResult.result # ""
     THEN /\ queryScript' = frame'[nInv'].encodeResult.result
          /\ \E k \in CallsIn(trace'[nInv'], "QueryParams.set") :
               /\ trace'[nInv'][k].arg = frame'[nInv'].encodeResult.result
               /\ \A c \in CallsIn(trace'[nInv'], "d2Compile") : k < c
     ELSE queryScript' = queryScript]_vars

C7_Witness ==
  /\ frame[1].outcome = "http500"
  /\ frame[2].outcome = "encodeFailure"
  /\ queryScript = "E1"

\* The installed gutter decorations are those of the error list errs, one per
\* error and in its order, under the handles of monacoLineDecorators.
InstalledAre(errs) ==
  /\ Cardinality(DOMAIN decorations) = Len(errs)
  /\ Len(monacoLineDecorators) = Len(errs)
  /\ \A k \in 1..Len(errs) :
       /\ monacoLineDecorators[k] \in DOMAIN decorations
       /\ decorations[monacoLineDecorators[k]] = GutterDecoration(errs[k])

\* C8, as stated: after any sequence of displayCompileErrors and
\* clearCompileErrors calls the installed gutter decorations are those of the
\* latest displayCompileErrors call, one per error passed to it (none when
\* that call threw on a range that does not parse, before producing any), or
\* none if the latest call was clearCompileErrors. Stated for lists in which
\* every error has a range.
C8_LatestCallDecorates ==
  /\ (lastCall.op = "display" /\ ~lastCall.threw) => InstalledAre(lastCall.errs)
  /\ (lastCall.op = "display" /\ lastCall.threw
      /\ \A k \in 1..Len(lastCall.errs) : "range" \in DOMAIN lastCall.errs[k])
     => DOMAIN decorations = {}
  /\ lastCall.op = "clear" => DOMAIN decorations = {}

\* C8, amended: the installed gutter decorations are those of the latest call
\* that returned: one per error of a displayCompileErrors, none after a
\* clearCompileErrors; a displayCompileErrors that throws changes nothing, and
\* decorations of earlier calls never accumulate.
C8_LatestReturnedCallDecorates ==
  /\ lastReturned.op = "display" => InstalledAre(lastReturned.errs)
  /\ lastReturned.op = "clear" => DOMAIN decorations = {}
  /\ lastReturned.op = "none" => DOMAIN decorations = {}

C8_Witness ==
  /\ lastReturned.op = "display"
  /\ Len(lastReturned.errs) = 2
  /\ nextDecorationId > 2
  /\ lastCall.threw

\* C9: displayCompileErrors of a list with an error that has no range returns
\* normally: the panel shows the messages, that one included, and the errors
\* that have a range, and only they, are decorated.
C9_NoRangeTolerated ==
  (/\ lastCall.op = "display"
   /\ \E k \in 1..Len(lastCall.errs) : "range" \notin DOMAIN lastCall.errs[k]
   /\ \A k \in 1..Len(lastCall.errs) :
        "range" \in DOMAIN lastCall.errs[k] => ~ParsedRange[lastCall.errs[k]].threw)
  => /\ ~lastCall.threw
     /\ errorsPanel.innerHTML = ErrorLines(lastCall.errs)
     /\ Cardinality(DOMAIN decorations)
          = Cardinality({k \in 1..Len(lastCall.errs) : "range" \in DOMAIN lastCall.errs[k]})

\* C10: after displayCompileErrors of n errors with well-formed ranges the
\* panel is visible and holds the n messages in order when n <= 5, and the
\* first 5 followed by "... and (n-5) more error(s)" when n > 5.
C10_PanelLines ==
  lastReturned.op = "display"
  => LET errs == lastReturned.errs
         lines == errorsPanel.innerHTML
     IN /\ errorsPanel.display = "block"
        /\ IF Len(errs) <= 5
           THEN /\ Len(lines) = Len(errs)
                /\ \A k \in 1..Len(errs) : lines[k] = errs[k].errmsg
           ELSE /\ Len(lines) = 6
                /\ \A k \in 1..5 : lines[k] = errs[k].errmsg
                /\ lines[6] = "... and " \o ToString(Len(errs) - 5) \o " more error(s)"
                /\ Len(errs) = 7 => lines[6] = "... and 2 more error(s)"

C10_Witness ==
  /\ lastReturned.op = "display"
  /\ Len(lastReturned.errs) = 7
  /\ Len(errorsPanel.innerHTML) = 6
  /\ errorsPanel.display = "block"

\* What the user sees of the diagnostics: the panel, the gutter decorations
\* and the underline markers.
VisibleDiagnostics ==
  [panel |-> errorsPanel, gutter |-> Range(decorations), underlines |-> markers]

NoDiagnostics ==
  [panel |-> [innerHTML |-> <<>>, display |-> "none"], gutter |-> {}, underlines |-> <<>>]

\* C11: after any sequence of displayCompileErrors and clearCompileErrors
\* calls that ends with clearCompileErrors the panel is empty and hidden and
\* there are no gutter decorations and no underline markers; a further
\* clearCompileErrors starts from that state and ends in it.
C11_ClearIdempotent ==
  [][lastCall'.op = "clear" => VisibleDiagnostics' = NoDiagnostics]_vars

C11_Witness ==
  /\ lastCall.op = "clear"
  /\ monacoLineDecorators # <<>>
  /\ nextDecorationId > Len(monacoLineDecorators)
  /\ VisibleDiagnostics = NoDiagnostics

\* The messages of the alerts invocation i has raised, in order.
AlertsOf(i) ==
  LET at == Calls(i, "Alert.show")
  IN {trace[i][k].arg : k \in at}

\* C12: the outcome of the render request is classified in the order network
\* exception, 500, 403, any other status that is not ok, success; each of the
\* four failures raises its own message, exactly one alert per failed render,
\* and the diagram is overwritten only when the response is ok.
C12_RenderClassification ==
  /\ \A i \in 1..MaxInv :
       (Calls(i, "fetch") # {} /\ pc[i] # "fetch")
       => LET status == frame[i].status
              expected == IF status = 0 THEN {"unexpected error, check the connection"}
                          ELSE IF status = 500 THEN {"API error"}
                          ELSE IF status = 403 THEN {"too much"}
                          ELSE IF ~ResponseOk(status) THEN {"unexpected error"}
                          ELSE {}
          IN /\ AlertsOf(i) = expected
             /\ Cardinality(Calls(i, "Alert.show")) = Cardinality(expected)
             /\ Calls(i, "renderEl.innerHTML") # {} => ResponseOk(status)
             /\ (status = 0) = (frame[i].outcome = "network")
  /\ renderSvg # NoMarkup
     => /\ ResponseOk(frame[renderSvg.request].status)
        /\ Calls(renderSvg.request, "renderEl.innerHTML") # {}

C12_Witness ==
  /\ frame[1].status = 500
  /\ frame[2].status = 404
  /\ AlertsOf(1) = {"API error"}
  /\ AlertsOf(2) = {"unexpected error"}
  /\ renderSvg = NoMarkup

\* The position the parsers produce for the wire position <<line, column, byte>>.
Shown(pos) == [line |-> Num(pos[1] + 1), column |-> Num(pos[2] + 1), byte |-> Num(pos[3])]

\* C13: parseRange splits at the last '-' and at the last ',' before that '-':
\* the path is what precedes the ',', the start position lies between ',' and
\* '-', the end position follows the '-', both positions go through
\* parsePosition; "a-b.d2,3:5:120-3:9:124" yields path "a-b.d2", start
\* {4,6,120}, end {4,10,124}; an input without '-' and an input without ','
\* before the last '-' raise an error.
C13_ParseRange ==
  (parseOut.applied /\ parseIn.fn = "parseRange") =>
    LET rs == parseIn.arg
        r == parseOut.result
        dashes == {k \in 1..Len(rs) : rs[k] = "-"}
        d == CHOOSE k \in dashes : \A m \in dashes : m <= k
        commas == {k \in 1..Len(rs) : rs[k] = "," /\ k < d}
        c == CHOOSE k \in commas : \A m \in commas : m <= k
        start == parsePosition(SubSeq(rs, c + 1, d - 1))
        end == parsePosition(SubSeq(rs, d + 1, Len(rs)))
    IN /\ IF dashes = {} THEN r.threw /\ r.error = "missing end field in range"
          ELSE IF commas = {} THEN r.threw /\ r.error = "missing start field in range"
          ELSE IF start.threw \/ end.threw
          THEN r.threw /\ r.error = "expected three fields in position"
          ELSE /\ ~r.threw
               /\ r.value.path = SubSeq(rs, 1, c - 1)
               /\ r.value.start = start.value
               /\ r.value.end = end.value
       /\ Len(parseIn.wire) = 3
          => /\ ~r.threw
             /\ r.value.path = parseIn.wire[1]
             /\ r.value.start = Shown(parseIn.wire[2])
             /\ r.value.end = Shown(parseIn.wire[3])
       /\ rs = ErrC.range
          => /\ ~r.threw
             /\ r.value = [path |-> <<"a", "-", "b", ".", "d", "2">>,
                           start |-> [line |-> Num(4), column |-> Num(6), byte |-> Num(120)],
                           end |-> [line |-> Num(4), column |-> Num(10), byte |-> Num(124)]]

C13_Witness ==
  /\ parseOut.applied
  /\ parseIn.fn = "parseRange"
  /\ parseIn.arg = ErrC.range
  /\ ~parseOut.result.threw
  /\ parseOut.result.value.path = <<"a", "-", "b", ".", "d", "2">>

\* an integer of at least 1
AtLeastOne(x) == ~x.nan /\ x.inf = 0 /\ ~x.neg /\ x.e = 0 /\ x.digits # <<>>

\* 1.11 + 1 as doubles add: the double nearest to 1.11 is a little below
\* 1.11, and the sum is rounded to the double printed as 2.1100000000000003.
SumOfOnePointElevenAndOne ==
  Dec(FALSE,
      <<2, 1, 1, 0, 0, 0, 0, 0, 0, 0, 0, 0, 0, 0, 0, 0, 3, 1, 9, 7, 4, 4, 2, 3, 1, 0, 9, 2, 0,
        4, 5, 0, 8, 3, 6, 4, 2, 0, 0, 5, 9, 2, 0, 4, 1, 0, 1, 5, 6, 2, 5>>,
      -50)

\* C14: parsePosition of three ':'-separated numeric fields l:c:b returns
\* line l+1, column c+1, byte b, so line and column are at least 1 for every
\* non-negative wire position; every input whose number of ':'-separated
\* fields is not three raises an error.
C14_ParsePosition ==
  (parseOut.applied /\ parseIn.fn = "parsePosition") =>
    LET ps == parseIn.arg
        r == parseOut.result
        colons == Cardinality({k \in 1..Len(ps) : ps[k] = ":"})
    IN /\ r.threw = (colons # 2)
       /\ r.threw => r.error = "expected three fields in position"
       /\ Len(parseIn.wire) = 3
          => /\ ~r.threw
             /\ r.value = Shown(parseIn.wire)
             /\ AtLeastOne(r.value.line)
             /\ AtLeastOne(r.value.column)
             /\ r.value.byte = Num(parseIn.wire[3])
       /\ ps = <<"1", "e", "3", ":", "0", "x", "1", "0", ":", "1", ".", "5">>
          => /\ ~r.threw
             /\ r.value = [line |-> Num(1001), column |-> Num(17),
                           byte |-> Dec(FALSE, <<1, 5>>, -1)]
       /\ ps = <<"1", ".", "1", "1", ":", " ", "7", ":", "-", "2">>
          => /\ ~r.threw
             /\ r.value = [line |-> SumOfOnePointElevenAndOne, column |-> Num(8),
                           byte |-> Num(-2)]

C14_Witness ==
  /\ parseOut.applied
  /\ parseIn.fn = "parsePosition"
  /\ parseIn.arg = <<"3", ":", "5", ":", "1", "2", "0">>
  /\ ~parseOut.result.threw
  /\ parseOut.result.value = [line |-> Num(4), column |-> Num(6), byte |-> Num(120)]

\* C15: when the encoder returns an empty result, compile() raises the
\* encoding alert and does nothing of what follows: no d2Compile, no write of
\* the query parameter "script", no replacement of the editor's text, the
\* decorations, markers and error panel unchanged, no loader, no render request.
C15_EncodeFailureShortCircuits ==
  [][\A i \in 1..MaxInv :
       (/\ pc[i] = "none"
        /\ trace'[i] # <<>>
        /\ frame'[i].encodeResult.result = "")
       => /\ trace'[i] = <<Event("lockCompileBtn", ""), Event("d2Encode", ""),
                           Event("Alert.show", "encoding error")>>
          /\ pc'[i] = "returned"
          /\ UNCHANGED <<queryScript, editorValue, monacoLineDecorators, decorations, markers,
                         errorsPanel, loader, renderSvg>>]_vars

C15_Witness ==
  /\ frame[2].outcome = "encodeFailure"
  /\ frame[2].encodeResult.result = ""
  /\ Calls(2, "Alert.show") # {}
  /\ queryScript = "E1"
  /\ DOMAIN decorations # {}
  /\ errorsPanel.display = "block"

\* C16: when the user-error payload holds an error whose range is malformed
\* (every error of the payload has a range), the parsing failure leaves
\* compile() and the lock is released all the same, so the next compile
\* action is accepted.
C16_MalformedRangeUnlocks ==
  [][\A i \in 1..MaxInv :
       (/\ pc[i] = "none"
        /\ pc'[i] # "none"
        /\ frame'[i].compiled.userError # ""
        /\ LET errs == JSONparse(frame'[i].compiled.userError).errs
           IN /\ \A k \in 1..Len(errs) : "range" \in DOMAIN errs[k]
              /\ \E k \in 1..Len(errs) : ParsedRange[errs[k]].threw)
       => /\ pc'[i] = "threw"
          /\ ~locked']_vars

\* C17: an invocation releases only a lock it took itself: the unlock after
\* the body has been read never releases the lock while a later-started
\* invocation is in flight.
C17_LockOwnership ==
  [][\A i \in 1..MaxInv :
       (/\ pc[i] = "text"
        /\ Ended(i)'
        /\ \E j \in (i + 1)..MaxInv : InFlight(j))
       => (locked => locked')]_vars

\* The invocations that have written the diagram region.
Rendered == {i \in 1..MaxInv : Calls(i, "renderEl.innerHTML") # {}}

\* C18: once every invocation has finished, the markup in the diagram region
\* is that of the most recently started invocation that rendered; an earlier
\* invocation's markup never replaces a later one's.
C18_LatestCompileWins ==
  ((\A i \in 1..MaxInv : pc[i] # "none" => Ended(i)) /\ Rendered # {})
  => renderSvg.request = Max(Rendered)

\* C19: after any sequence of displayCompileErrors and clearCompileErrors
\* calls, monacoLineDecorators lists exactly the handles installed in the
\* editor (none after clearCompileErrors), so the "previous decorations"
\* handed to the editor never hold a handle already removed.
C19_HandlesAreInstalled ==
  /\ Range(monacoLineDecorators) = DOMAIN decorations
  /\ lastReturned.op = "clear" => monacoLineDecorators = <<>>

DiagnosticsShown ==
  \/ DOMAIN decorations # {}
  \/ markers # <<>>
  \/ errorsPanel.display = "block"

\* C20 as stated: an invocation that ends in internal error or encode failure
\* leaves no diagnostics displayed.
C20_NoStaleDiagnostics ==
  [][\A i \in 1..MaxInv :
       (/\ ~Ended(i)
        /\ Ended(i)'
        /\ frame'[i].outcome \in {"internalError", "encodeFailure"})
       => ~DiagnosticsShown']_vars

\* The invocations that showed diagnostics or went on to the render request.
Settled == {i \in 1..MaxInv : frame[i].outcome = "userError" \/ Calls(i, "fetch") # {}}

\* C20: diagnostics are displayed only if, among the invocations that ended
\* in user error or went on to the render request, the most recently started
\* one ended in user error; an invocation ending in internal error or encode
\* failure leaves the diagnostics as they were.
C20_DiagnosticsOfLatestSettled ==
  DiagnosticsShown => (Settled # {} /\ frame[Max(Settled)].outcome = "userError")

C20_Witness ==
  /\ frame[1].outcome = "userError"
  /\ frame[2].outcome = "internalError"
  /\ DiagnosticsShown
  /\ DOMAIN decorations # {}

\* The same with "finished" for "started": when an invocation that ended in
\* user error or went on to the render request ends, it is the most recently
\* finished one, and diagnostics are displayed only if it ended in user
\* error. An invocation shows or clears the diagnostics in its first part, up
\* to its first await, so this fails where a second invocation starts and
\* ends in user error while the first one waits for its body.
C20_DiagnosticsOfLatestFinished ==
  [][\A i \in 1..MaxInv :
       (~Ended(i) /\ Ended(i)' /\ i \in Settled' /\ DiagnosticsShown')
       => frame'[i].outcome = "userError"]_vars

====
